---- MODULE Spec2Model ----
(***************************************************************************)
(* Model of evanj/hstorebench: discovery of the hstore type OID from the   *)
(* pg_type catalog, registration of the hstore codec in a connection's     *)
(* type map, and the benchmark closures that use the registration.         *)
(*                                                                         *)
(* The Postgres server, the pgx driver and database/sql are the            *)
(* environment: the catalog is the variable pg_type, a driver call is an   *)
(* operator over the catalog and an I/O fault input, and a connection's    *)
(* pgtype.Map is the pair of maps RegisterType writes.                     *)
(***************************************************************************)
EXTENDS Integers, Sequences, FiniteSets, TLC

\* Bound on the number of calls (registerHstore, lookups, closure runs) of one behaviour.
MaxCalls == 4

nil == "nil"

\* src/hstorebench.go:14
errHstoreDoesNotExist == "errHstoreDoesNotExist"

\* Driver sentinels and a representative of every other driver error.
pgxErrNoRows == "pgx.ErrNoRows"

sqlErrNoRows == "sql.ErrNoRows"

ioError == "ioError"

\* The pgx connections the programs open, and the connections of the sqlDB pool.
PgxConns == {"pgxConn", "pgxConnHstoreRegistered"}

SqlConns == {"sqlConn1", "sqlConn2"}

Conns == PgxConns \cup SqlConns

\* Handles a catalog lookup can be issued through.
Handles == PgxConns \cup {"sqlDB"}

\* OIDs the server may assign to the extension's type (it is not built in).
ExtensionOIDs == {16385, 16386}

\* A pgtype.Type value.
Type(name, oid, codec) == [Name |-> name, OID |-> oid, Codec |-> codec]

\* The type map of a fresh connection: built-in types only, no hstore.
NewTypeMap ==
    LET text == Type("text", 25, "pgtype.TextCodec")
    IN  [nameToType |-> ("text" :> text), oidToType |-> (25 :> text)]

\* pgtype.Map.RegisterType: the type is stored under its name and under its OID.
RegisterType(m, t) ==
    [nameToType |-> [n \in DOMAIN m.nameToType \cup {t.Name} |->
                        IF n = t.Name THEN t ELSE m.nameToType[n]],
     oidToType  |-> [o \in DOMAIN m.oidToType \cup {t.OID} |->
                        IF o = t.OID THEN t ELSE m.oidToType[o]]]

\* pgtype.Map.TypeForName: (pgt, ok); pgt is nil when the name is not registered.
TypeForName(m, name) ==
    IF name \in DOMAIN m.nameToType
    THEN [pgt |-> m.nameToType[name], ok |-> TRUE]
    ELSE [pgt |-> nil, ok |-> FALSE]

\* Codec.PreferredFormat of the codecs the programs register.
PreferredFormat(codec) ==
    IF codec \in {"pgtype.HstoreCodec", "pgxtypefaster.HstoreCodec"}
    THEN "BinaryFormatCode"
    ELSE "TextFormatCode"

VARIABLES
    pg_type,      \* rows of pg_type with typname = 'hstore': <<>> or <<oid>>
    typeMap,      \* typeMap[c]: the pgtype.Map of connection c
    hstoreOID,    \* BenchmarkHstore's variable hstoreOID (0: not assigned yet)
    lookups,      \* lookups[h]: catalog lookup queries sent through handle h
    writes,       \* writes[c]: RegisterType calls made on typeMap[c]
    queries,      \* queries[c]: benchmark queries sent on connection c
    lastCall,     \* the last call made: operation, connection, inputs, result
    notExistSeen, \* connections on which registerHstore returned errHstoreDoesNotExist
    ncalls,       \* number of calls made
    panicked      \* the process has panicked

apiVars == <<pg_type, typeMap, hstoreOID, lookups, writes, queries, lastCall,
            notExistSeen, ncalls, panicked>>

\* State of one run of a program (BenchmarkHstore or main).
VARIABLES
    prog,         \* the program: a version of BenchmarkHstore, or main
    pc,           \* its position
    regErr,       \* what registerHstore returned on the registered connection
    subIdx,       \* index of the current sub-benchmark among the fixed ones
    ci, mi,       \* indices of the pgxScan loops over connections and query modes
    connConfig,   \* the loop variable connConfig (one variable per loop: go 1.20)
    queryMode,    \* the loop variable queryMode
    label,        \* name of the current sub-benchmark
    rounds,       \* calls of the benchmark function made for this sub-benchmark
    bN,           \* b.N of the current call
    i,            \* timeIt's loop counter
    invoked,      \* invocations of f made by the current timeIt call
    failed,       \* error the current sub-benchmark was failed with (nil: none)
    rowsOpen,     \* rowsOpen[h]: a result set opened on h is neither exhausted nor closed
    lastRun       \* the last closure run

benchVars == <<prog, pc, regErr, subIdx, ci, mi, connConfig, queryMode, label,
              rounds, bN, i, invoked, failed, rowsOpen, lastRun>>

VARIABLES
    rng,          \* state of the generator mathrand.New(mathrand.NewSource(rngSeed))
    row,          \* the outer loop counter i: rows generated so far
    numPairs,     \* numPairs of the current row
    j,            \* the inner loop counter
    keyString,    \* keyString of the last pair
    valueString,  \* valueString of the last pair
    rowBuilder,   \* the text in rowBuilder
    totalKVBytes, \* totalKVBytes
    benchmark,    \* the table benchmark: the row texts inserted, in order
    generated     \* generated[r]: the <<key, value>> pairs generated for row r

genVars == <<rng, row, numPairs, j, keyString, valueString, rowBuilder,
             totalKVBytes, benchmark, generated>>

vars == <<apiVars, benchVars, genVars>>

Call(op, conn, fault, err, oid) ==
    [op |-> op, conn |-> conn, fault |-> fault, err |-> err, oid |-> oid]

\* Bounds of a benchmark run: the largest b.N, and the most calls the testing
\* framework makes of one sub-benchmark's function.
MaxN == 3

MaxRounds == 2

\* The versions of the benchmark program in the repository, and main.
Progs == {"part_000", "hstorebench_test", "main"}

\* The connection registerHstore is called on (pgxConnCodec in main).
RegConn == "pgxConnHstoreRegistered"

\* Everything a benchmark closure opens a result set on.
BenchHandles == PgxConns \cup {"pgxConnFasterHstoreRegistered", "sqlDB"}

\* The sub-benchmarks run before the pgxScan loops, in order.
FixedSubs(p) ==
    LET common == << [name |-> "pgxRawValues", conn |-> "pgxConn", kind |-> "rawValues"],
                     [name |-> "pgxValuesString", conn |-> "pgxConn", kind |-> "values"],
                     [name |-> "pgxValuesHstoreRegistered", conn |-> RegConn, kind |-> "values"],
                     [name |-> "pgxsqlScanHstore", conn |-> "sqlDB", kind |-> "scan"] >>
    IN  IF p = "part_000"
        THEN common \o
             << [name |-> "pgxsqlScanHstoreFaster", conn |-> "sqlDB", kind |-> "scan"],
                [name |-> "pgxsqlScanHstoreBinaryRawConn", conn |-> "sqlDB", kind |-> "rawBinary"] >>
        ELSE IF p = "hstorebench_test" THEN common
        ELSE << >>

queryModes ==
    << "QueryExecModeCacheStatement", "QueryExecModeCacheDescribe",
       "QueryExecModeDescribeExec", "QueryExecModeExec", "QueryExecModeSimpleProtocol" >>

connConfigs(p) ==
    LET two == << [label |-> "default", conn |-> "pgxConn"],
                  [label |-> "hstore_registered", conn |-> RegConn] >>
    IN  IF p = "part_000"
        THEN two \o << [label |-> "faster_hstore_registered",
                        conn |-> "pgxConnFasterHstoreRegistered"] >>
        ELSE IF p = "hstorebench_test" THEN two
        ELSE << >>

\* Whether the program checks what registerHstore returned.
ChecksRegisterErr(p) == p \in {"part_000", "main"}

NoRun ==
    [name |-> "none", conn |-> "none", mode |-> "none", label |-> <<"none", "none">>,
     err |-> nil, startedBusy |-> FALSE]

\* The program state before the program has done anything.
BenchIdle(p) ==
    /\ prog = p
    /\ pc = "createExt"
    /\ regErr = "unset"
    /\ subIdx = 1
    /\ ci = 1
    /\ mi = 1
    /\ connConfig = [label |-> "none", conn |-> "none"]
    /\ queryMode = "none"
    /\ label = <<"none", "none">>
    /\ rounds = 0
    /\ bN = 0
    /\ i = 0
    /\ invoked = 0
    /\ failed = nil
    /\ rowsOpen = [h \in BenchHandles |-> FALSE]
    /\ lastRun = NoRun

\* The generation state before any row is generated, with the generator in state r.
GenIdle(r) ==
    /\ rng = r
    /\ row = 0
    /\ numPairs = 0
    /\ j = 0
    /\ keyString = << >>
    /\ valueString = << >>
    /\ rowBuilder = << >>
    /\ totalKVBytes = 0
    /\ benchmark = << >>
    /\ generated = << >>

Init ==
    /\ pg_type = <<>>
    /\ typeMap = [c \in Conns |-> NewTypeMap]
    /\ hstoreOID = 0
    /\ lookups = [h \in Handles |-> 0]
    /\ writes = [c \in Conns |-> 0]
    /\ queries = [c \in Conns |-> 0]
    /\ lastCall = Call("none", "none", FALSE, nil, 0)
    /\ notExistSeen = {}
    /\ ncalls = 0
    /\ panicked = FALSE
    /\ BenchIdle("none")
    /\ GenIdle(0)

\* conn.QueryRow(`select oid from pg_type where typname = 'hstore'`).Scan(&hstoreOID)
\* as the driver answers it: an I/O error, its no-rows sentinel, or the row's oid.
QueryRowScan(rows, fault, noRows) ==
    IF fault THEN [err |-> ioError, oid |-> 0]
    ELSE IF rows = <<>> THEN [err |-> noRows, oid |-> 0]
    ELSE [err |-> nil, oid |-> rows[1]]

queryHstoreOID_swallowNoRows(rows, fault) ==
    LET r == QueryRowScan(rows, fault, pgxErrNoRows)
    IN  IF r.err # nil /\ r.err # pgxErrNoRows
        THEN [oid |-> 0, err |-> r.err]
        ELSE [oid |-> r.oid, err |-> nil]

queryHstoreOID_allNotExist(rows, fault) ==
    LET r == QueryRowScan(rows, fault, pgxErrNoRows)
    IN  IF r.err # nil
        THEN [oid |-> 0, err |-> errHstoreDoesNotExist]
        ELSE [oid |-> r.oid, err |-> nil]

queryHstoreOID(rows, fault) ==
    LET r == QueryRowScan(rows, fault, pgxErrNoRows)
    IN  IF r.err # nil
        THEN IF r.err = pgxErrNoRows
             THEN [oid |-> 0, err |-> errHstoreDoesNotExist]
             ELSE [oid |-> 0, err |-> r.err]
        ELSE [oid |-> r.oid, err |-> nil]

queryHstoreOIDSQL_wrongSentinel(rows, fault) ==
    LET r == QueryRowScan(rows, fault, sqlErrNoRows)
    IN  IF r.err # nil
        THEN IF r.err = pgxErrNoRows
             THEN [oid |-> 0, err |-> errHstoreDoesNotExist]
             ELSE [oid |-> 0, err |-> r.err]
        ELSE [oid |-> r.oid, err |-> nil]

queryHstoreOIDSQL(rows, fault) ==
    LET r == QueryRowScan(rows, fault, sqlErrNoRows)
    IN  IF r.err # nil
        THEN IF r.err = sqlErrNoRows
             THEN [oid |-> 0, err |-> errHstoreDoesNotExist]
             ELSE [oid |-> 0, err |-> r.err]
        ELSE [oid |-> r.oid, err |-> nil]

registerHstoreTypeMap(oid, m) ==
    RegisterType(m, Type("hstore", oid, "pgtype.HstoreCodec"))

\* Bookkeeping common to every call.
Called(op, conn, fault, err, oid) ==
    /\ lastCall' = Call(op, conn, fault, err, oid)
    /\ ncalls' = ncalls + 1

registerHstore_noRegister(conn, fault) ==
    LET r == queryHstoreOID(pg_type, fault)
    IN  /\ lookups' = [lookups EXCEPT ![conn] = @ + 1]
        /\ UNCHANGED <<typeMap, writes>>
        /\ notExistSeen' = IF r.err = errHstoreDoesNotExist
                           THEN notExistSeen \cup {conn} ELSE notExistSeen
        /\ Called("registerHstore", conn, fault, r.err, r.oid)
        /\ UNCHANGED <<pg_type, hstoreOID, queries, panicked>>

registerHstore_registerOnError(conn, fault) ==
    LET r == queryHstoreOID(pg_type, fault)
    IN  /\ lookups' = [lookups EXCEPT ![conn] = @ + 1]
        /\ typeMap' = [typeMap EXCEPT ![conn] = registerHstoreTypeMap(r.oid, @)]
        /\ writes' = [writes EXCEPT ![conn] = @ + 1]
        /\ notExistSeen' = IF r.err = errHstoreDoesNotExist
                           THEN notExistSeen \cup {conn} ELSE notExistSeen
        /\ Called("registerHstore", conn, fault, r.err, r.oid)
        /\ UNCHANGED <<pg_type, hstoreOID, queries, panicked>>

registerHstore_globalMap(conn, fault) ==
    LET r == queryHstoreOID(pg_type, fault)
    IN  /\ lookups' = [lookups EXCEPT ![conn] = @ + 1]
        /\ IF r.err # nil
           THEN UNCHANGED <<typeMap, writes>>
           ELSE /\ typeMap' = [c \in Conns |->
                      IF c \in PgxConns
                      THEN registerHstoreTypeMap(r.oid, typeMap[c]) ELSE typeMap[c]]
                /\ writes' = [c \in Conns |->
                      IF c \in PgxConns THEN writes[c] + 1 ELSE writes[c]]
        /\ notExistSeen' = IF r.err = errHstoreDoesNotExist
                           THEN notExistSeen \cup {conn} ELSE notExistSeen
        /\ Called("registerHstore", conn, fault, r.err, r.oid)
        /\ UNCHANGED <<pg_type, hstoreOID, queries, panicked>>

\* registerHstore(ctx, conn): one catalog lookup through conn, then, unless it
\* failed, one RegisterType on conn's type map.
registerHstore(conn, fault) ==
    LET r == queryHstoreOID(pg_type, fault)
    IN  /\ lookups' = [lookups EXCEPT ![conn] = @ + 1]
        /\ IF r.err # nil
           THEN UNCHANGED <<typeMap, writes>>
           ELSE /\ typeMap' = [typeMap EXCEPT ![conn] = registerHstoreTypeMap(r.oid, @)]
                /\ writes' = [writes EXCEPT ![conn] = @ + 1]
        /\ notExistSeen' = IF r.err = errHstoreDoesNotExist
                           THEN notExistSeen \cup {conn} ELSE notExistSeen
        /\ Called("registerHstore", conn, fault, r.err, r.oid)
        /\ UNCHANGED <<pg_type, hstoreOID, queries, panicked>>

\* pgxConn.Exec(ctx, "CREATE EXTENSION hstore"): the server assigns the type's OID.
CreateExtension ==
    /\ ~panicked
    /\ pg_type = <<>>
    /\ \E oid \in ExtensionOIDs : pg_type' = <<oid>>
    /\ UNCHANGED <<typeMap, hstoreOID, lookups, writes, queries, lastCall,
                   notExistSeen, ncalls, panicked>>

CallRegisterHstore ==
    /\ ~panicked
    /\ ncalls < MaxCalls
    /\ \E conn \in PgxConns, fault \in BOOLEAN : registerHstore(conn, fault)

\* hstoreOID, err := queryHstoreOIDSQL(ctx, sqlDB); if err != nil { panic(err) }
BenchQueryHstoreOID ==
    /\ ~panicked
    /\ ncalls < MaxCalls
    /\ hstoreOID = 0
    /\ \E fault \in BOOLEAN :
         LET r == queryHstoreOIDSQL(pg_type, fault)
         IN  /\ lookups' = [lookups EXCEPT !["sqlDB"] = @ + 1]
             /\ hstoreOID' = r.oid
             /\ panicked' = (r.err # nil)
             /\ Called("queryHstoreOIDSQL", "sqlDB", fault, r.err, r.oid)
    /\ UNCHANGED <<pg_type, typeMap, writes, queries, notExistSeen>>

sqlScanHstoreFasterRawBinary_lookupEachRun(conn, connErr) ==
    LET r == queryHstoreOIDSQL(pg_type, FALSE)
    IN  /\ lookups' = [lookups EXCEPT !["sqlDB"] = @ + 1]
        /\ IF connErr \/ r.err # nil
           THEN UNCHANGED <<typeMap, writes, queries>>
           ELSE /\ typeMap' = [typeMap EXCEPT ![conn] =
                      RegisterType(@, Type("hstore", r.oid, "pgxtypefaster.HstoreCodec"))]
                /\ writes' = [writes EXCEPT ![conn] = @ + 1]
                /\ queries' = [queries EXCEPT ![conn] = @ + 1]
        /\ Called("sqlScanHstoreFasterRawBinary", conn, connErr,
                  IF connErr THEN ioError ELSE r.err, r.oid)
        /\ UNCHANGED <<pg_type, hstoreOID, notExistSeen, panicked>>

\* One run of the closure sqlScanHstoreFasterRawBinary: sqlDB.Conn hands out a
\* connection of the pool (or fails); the closure registers the hstore type
\* built from the captured hstoreOID on that connection and queries on it.
sqlScanHstoreFasterRawBinary(conn, connErr) ==
    /\ IF connErr
       THEN UNCHANGED <<typeMap, writes, queries>>
       ELSE /\ typeMap' = [typeMap EXCEPT ![conn] =
                  RegisterType(@, Type("hstore", hstoreOID, "pgxtypefaster.HstoreCodec"))]
            /\ writes' = [writes EXCEPT ![conn] = @ + 1]
            /\ queries' = [queries EXCEPT ![conn] = @ + 1]
    /\ Called("sqlScanHstoreFasterRawBinary", conn, connErr,
              IF connErr THEN ioError ELSE nil, hstoreOID)
    /\ UNCHANGED <<pg_type, hstoreOID, lookups, notExistSeen, panicked>>

RunSqlScanHstoreFasterRawBinary ==
    /\ ~panicked
    /\ ncalls < MaxCalls
    /\ hstoreOID # 0
    /\ \E conn \in SqlConns, connErr \in BOOLEAN :
         sqlScanHstoreFasterRawBinary(conn, connErr)

\* One run of a closure that queries a pgx connection (pgxRawValues,
\* pgxValuesString, pgxValuesHstoreRegistered, the pgxScan closures).
pgxQueryClosure(conn) ==
    /\ queries' = [queries EXCEPT ![conn] = @ + 1]
    /\ Called("pgxQuery", conn, FALSE, nil, 0)
    /\ UNCHANGED <<pg_type, typeMap, hstoreOID, lookups, writes, notExistSeen, panicked>>

RunPgxQueryClosure ==
    /\ ~panicked
    /\ ncalls < MaxCalls
    /\ pg_type # <<>>
    /\ \E conn \in PgxConns : pgxQueryClosure(conn)

\* The dynamic types database/sql hands to a Scanner for an hstore column: the
\* value as a string, the value as a byte slice, or nil for a SQL NULL.
ScanSrcKinds == {"string", "[]byte", "nil"}

\* src.(string): the single-value type assertion panics unless src is a string.
AssertString(kind) == IF kind = "string" THEN "ok" ELSE "panic"

\* (*HstoreSQLBinary).Scan(src): the type assertion, then the result of the
\* binary scan plan (nil or its error) returned as it is.
HstoreSQLBinaryScan ==
    /\ ~panicked
    /\ ncalls < MaxCalls
    /\ \E kind \in ScanSrcKinds, planErr \in {nil, "scanError"} :
         IF AssertString(kind) = "panic"
         THEN /\ panicked' = TRUE
              /\ Called("HstoreSQLBinary.Scan", kind, FALSE, "panic", 0)
         ELSE /\ panicked' = FALSE
              /\ Called("HstoreSQLBinary.Scan", kind, FALSE, planErr, 0)
    /\ UNCHANGED <<pg_type, typeMap, hstoreOID, lookups, writes, queries, notExistSeen>>

\* A step of the API outside a program run.
Api(A) == A /\ UNCHANGED benchVars /\ UNCHANGED genVars

Next ==
    \/ Api(CreateExtension)
    \/ Api(CallRegisterHstore)
    \/ Api(BenchQueryHstoreOID)
    \/ Api(RunSqlScanHstoreFasterRawBinary)
    \/ Api(RunPgxQueryClosure)
    \/ Api(HstoreSQLBinaryScan)

Spec == Init /\ [][Next]_vars

----
\* The programs: BenchmarkHstore (two versions) and main, step by step.

InLoop == subIdx > Len(FixedSubs(prog))

\* The closure the current sub-benchmark times. A pgxScan closure reads the
\* loop variables connConfig and queryMode when it runs.
CurClosure ==
    IF InLoop
    THEN [name |-> "pgxScan", conn |-> connConfig.conn, kind |-> "scan", mode |-> queryMode]
    ELSE [name |-> FixedSubs(prog)[subIdx].name, conn |-> FixedSubs(prog)[subIdx].conn,
          kind |-> FixedSubs(prog)[subIdx].kind, mode |-> "default"]

\* How one run of a closure of the given kind can end: nil, or the error it returns.
OutcomesOf(kind) ==
    {nil, "queryErr", "rowsErr"}
    \cup (IF kind = "rawValues" THEN {"unexpectedValues"} ELSE {})
    \cup (IF kind = "values" THEN {"valuesErr", "unexpectedValues"} ELSE {})
    \cup (IF kind \in {"scan", "rawBinary", "mainScan"} THEN {"scanErr"} ELSE {})
    \cup (IF kind \in {"scan", "rawBinary"} THEN {"emptyHstore"} ELSE {})
    \cup (IF kind = "rawBinary" THEN {"connErr"} ELSE {})

\* Whether the result set is open when the closure returns: rows.Next has
\* returned false on the nil and rows.Err() paths; none was opened when Query
\* (or sqlDB.Conn) failed; a return from inside the loop closes nothing, and
\* only after a failed Scan or Values may the driver have closed the rows itself.
OpenAfter(outcome, before) ==
    IF outcome \in {nil, "rowsErr"} THEN {FALSE}
    ELSE IF outcome \in {"queryErr", "connErr"} THEN {before}
    ELSE IF outcome \in {"unexpectedValues", "emptyHstore"} THEN {TRUE}
    ELSE {TRUE, FALSE}

\* One run of closure cl. A pgx connection with an open result set is busy:
\* Query on it fails.
RunClosure(cl) ==
    LET busy == rowsOpen[cl.conn] /\ cl.conn # "sqlDB"
    IN  \E outcome \in (IF busy THEN {"queryErr"} ELSE OutcomesOf(cl.kind)) :
        \E open \in OpenAfter(outcome, rowsOpen[cl.conn]) :
            /\ rowsOpen' = [rowsOpen EXCEPT ![cl.conn] = open]
            /\ lastRun' = [name |-> cl.name, conn |-> cl.conn, mode |-> cl.mode,
                           label |-> label, err |-> outcome, startedBusy |-> busy]
            /\ IF cl.kind = "rawBinary" /\ outcome # "connErr"
               THEN \E c \in SqlConns :
                      typeMap' = [typeMap EXCEPT ![c] =
                          RegisterType(@, Type("hstore", hstoreOID, "pgxtypefaster.HstoreCodec"))]
               ELSE UNCHANGED typeMap
            /\ UNCHANGED <<pg_type, hstoreOID, lookups, writes, queries, lastCall,
                           notExistSeen, ncalls, panicked>>

\* _, err = pgxConn.Exec(ctx, "CREATE EXTENSION hstore"); if err != nil { panic(err) }
BenchCreateExtension ==
    /\ pc = "createExt"
    /\ \/ CreateExtension /\ pc' = "register"
       \/ UNCHANGED apiVars /\ pc' = "panic"
    /\ UNCHANGED <<prog, regErr, subIdx, ci, mi, connConfig, queryMode, label,
                   rounds, bN, i, invoked, failed, rowsOpen, lastRun>>

\* registerHstore(ctx, pgxConnHstoreRegistered): part_000 and main panic on an
\* error, hstorebench_test.go drops the returned value.
BenchRegisterHstore ==
    /\ pc = "register"
    /\ \E fault \in BOOLEAN : registerHstore(RegConn, fault)
    /\ regErr' = lastCall'.err
    /\ pc' = IF lastCall'.err # nil /\ ChecksRegisterErr(prog) THEN "panic"
             ELSE IF prog = "part_000" THEN "registerFaster"
             ELSE IF prog = "main" THEN "mainQuery"
             ELSE "createTable"
    /\ UNCHANGED <<prog, subIdx, ci, mi, connConfig, queryMode, label,
                   rounds, bN, i, invoked, failed, rowsOpen, lastRun>>

\* err = pgxtypefaster.RegisterHstore(ctx, pgxConnFasterHstoreRegistered); panic on error.
BenchRegisterFaster ==
    /\ pc = "registerFaster"
    /\ \E err \in {nil, ioError} : pc' = IF err # nil THEN "panic" ELSE "createTable"
    /\ UNCHANGED apiVars
    /\ UNCHANGED <<prog, regErr, subIdx, ci, mi, connConfig, queryMode, label,
                   rounds, bN, i, invoked, failed, rowsOpen, lastRun>>

\* hstoreOID, err := queryHstoreOIDSQL(ctx, sqlDB); panic on error.
BenchQueryOID ==
    /\ pc = "queryOID"
    /\ BenchQueryHstoreOID
    /\ pc' = IF panicked' THEN "panic" ELSE "sub"
    /\ UNCHANGED <<prog, regErr, subIdx, ci, mi, connConfig, queryMode, label,
                   rounds, bN, i, invoked, failed, rowsOpen, lastRun>>

\* main: rows, err = pgxConnCodec.Query(...); for rows.Next() { rows.Scan(&h) };
\* every error panics.
MainQuery ==
    /\ pc = "mainQuery"
    /\ RunClosure([name |-> "mainQuery", conn |-> RegConn, kind |-> "mainScan",
                   mode |-> "default"])
    /\ pc' = IF lastRun'.err = nil THEN "done" ELSE "panic"
    /\ UNCHANGED <<prog, regErr, subIdx, ci, mi, connConfig, queryMode, label,
                   rounds, bN, i, invoked, failed>>

\* b.Run(name, timeIt(closure)) of the next fixed sub-benchmark.
StartFixedSub ==
    /\ pc = "sub"
    /\ ~InLoop
    /\ label' = <<FixedSubs(prog)[subIdx].name, "default">>
    /\ rounds' = 0
    /\ failed' = nil
    /\ pc' = "round"
    /\ UNCHANGED apiVars
    /\ UNCHANGED <<prog, regErr, subIdx, ci, mi, connConfig, queryMode,
                   bN, i, invoked, rowsOpen, lastRun>>

\* The fixed sub-benchmarks are over: the pgxScan loops begin.
EnterLoop ==
    /\ pc = "sub"
    /\ InLoop
    /\ pc' = "loopHead"
    /\ UNCHANGED apiVars
    /\ UNCHANGED <<prog, regErr, subIdx, ci, mi, connConfig, queryMode, label,
                   rounds, bN, i, invoked, failed, rowsOpen, lastRun>>

LoopNext_noWait ==
    \/ /\ pc = "loopHead"
       /\ IF ci <= Len(connConfigs(prog))
          THEN /\ connConfig' = connConfigs(prog)[ci]
               /\ queryMode' = queryModes[mi]
               /\ label' = <<connConfigs(prog)[ci].label, queryModes[mi]>>
               /\ rounds' = 0
               /\ failed' = nil
               /\ pc' = "round"
          ELSE /\ pc' = "done"
               /\ UNCHANGED <<connConfig, queryMode, label, rounds, failed>>
       /\ UNCHANGED apiVars
       /\ UNCHANGED <<prog, regErr, subIdx, ci, mi, bN, i, invoked, rowsOpen, lastRun>>
    \/ /\ pc = "timeIt"
       /\ InLoop
       /\ mi < Len(queryModes)
       /\ mi' = mi + 1
       /\ queryMode' = queryModes[mi + 1]
       /\ UNCHANGED apiVars
       /\ UNCHANGED <<prog, pc, regErr, subIdx, ci, connConfig, label, rounds,
                      bN, i, invoked, failed, rowsOpen, lastRun>>

\* for _, connConfig := range connConfigs { for _, queryMode := range queryModes {
\*   label := fmt.Sprintf("pgxScan/%s/mode=%s", connConfig.label, queryMode)
\*   b.Run(label, timeIt(func() error { ... connConfig.conn.Query(ctx, query, queryMode) ... }))
\* The loop variables are assigned when the previous b.Run has returned.
LoopNext ==
    /\ pc = "loopHead"
    /\ IF ci <= Len(connConfigs(prog))
       THEN /\ connConfig' = connConfigs(prog)[ci]
            /\ queryMode' = queryModes[mi]
            /\ label' = <<connConfigs(prog)[ci].label, queryModes[mi]>>
            /\ rounds' = 0
            /\ failed' = nil
            /\ pc' = "round"
       ELSE /\ pc' = "done"
            /\ UNCHANGED <<connConfig, queryMode, label, rounds, failed>>
    /\ UNCHANGED apiVars
    /\ UNCHANGED <<prog, regErr, subIdx, ci, mi, bN, i, invoked, rowsOpen, lastRun>>

\* The testing framework calls the function timeIt returned, with some b.N.
StartRound ==
    /\ pc = "round"
    /\ \E n \in 1..MaxN : bN' = n
    /\ i' = 0
    /\ invoked' = 0
    /\ rounds' = rounds + 1
    /\ pc' = "timeIt"
    /\ UNCHANGED apiVars
    /\ UNCHANGED <<prog, regErr, subIdx, ci, mi, connConfig, queryMode, label,
                   failed, rowsOpen, lastRun>>

TimeItStep_errorContinues ==
    /\ pc = "timeIt"
    /\ i < bN
    /\ RunClosure(CurClosure)
    /\ invoked' = invoked + 1
    /\ i' = i + 1
    /\ failed' = IF lastRun'.err # nil THEN lastRun'.err ELSE failed
    /\ UNCHANGED <<prog, pc, regErr, subIdx, ci, mi, connConfig, queryMode, label,
                   rounds, bN>>

\* One iteration of timeIt's loop: err := f(); if err != nil { b.Fatal(err) }.
\* b.Fatal ends the sub-benchmark.
TimeItStep ==
    /\ pc = "timeIt"
    /\ i < bN
    /\ RunClosure(CurClosure)
    /\ invoked' = invoked + 1
    /\ IF lastRun'.err # nil
       THEN /\ failed' = lastRun'.err
            /\ pc' = "subEnd"
            /\ UNCHANGED i
       ELSE /\ i' = i + 1
            /\ UNCHANGED <<failed, pc>>
    /\ UNCHANGED <<prog, regErr, subIdx, ci, mi, connConfig, queryMode, label,
                   rounds, bN>>

\* timeIt's loop has ended (i == b.N): the framework calls the function again
\* with another b.N, or the sub-benchmark is over.
TimeItReturn ==
    /\ pc = "timeIt"
    /\ i >= bN
    /\ \E again \in BOOLEAN :
         pc' = IF again /\ rounds < MaxRounds THEN "round" ELSE "subEnd"
    /\ UNCHANGED apiVars
    /\ UNCHANGED <<prog, regErr, subIdx, ci, mi, connConfig, queryMode, label,
                   rounds, bN, i, invoked, failed, rowsOpen, lastRun>>

\* b.Run has returned: the next statement, or the next loop iteration.
EndSub ==
    /\ pc = "subEnd"
    /\ IF ~InLoop
       THEN /\ subIdx' = subIdx + 1
            /\ pc' = "sub"
            /\ UNCHANGED <<ci, mi>>
       ELSE /\ pc' = "loopHead"
            /\ IF mi < Len(queryModes)
               THEN mi' = mi + 1 /\ UNCHANGED ci
               ELSE mi' = 1 /\ ci' = ci + 1
            /\ UNCHANGED subIdx
    /\ UNCHANGED apiVars
    /\ UNCHANGED <<prog, regErr, connConfig, queryMode, label, rounds, bN, i,
                   invoked, failed, rowsOpen, lastRun>>


----
\* BenchmarkHstore fills the table benchmark with generated rows.

MaxRows == 2
MaxSeed == 15
maxKVPairsPerRow == 10

\* const numRows = 10000: the number of rows, bounded here.
numRows == MaxRows

\* math/rand's generator: a deterministic stream of draws that its seed fixes.
\* The stream of the real generator is not part of the repository; a family of
\* streams, one per seed, stands for it.
RngMod == 64
Seeds == 0..MaxSeed
Step(r) == (r * 5 + 3) % RngMod

\* rng.Int63(): a non-negative 63-bit integer, as four 16-bit limbs, the most
\* significant first (the top limb is below 2^15).
Int63(r) ==
    << (r * 521) % 32768, (r * 9973 + 1) % 65536,
       (r * r * 31 + 7) % 65536, (r * 257 + 65535) % 65536 >>

\* rng.Intn(n): an integer in [0, n).
Intn(r, n) == r % n

HexDigits ==
    << "0", "1", "2", "3", "4", "5", "6", "7", "8", "9", "a", "b", "c", "d", "e", "f" >>

\* The four lowercase hexadecimal digits of a 16-bit limb, zero-padded.
FormatLimb(x) ==
    << HexDigits[((x \div 4096) % 16) + 1], HexDigits[((x \div 256) % 16) + 1],
       HexDigits[((x \div 16) % 16) + 1], HexDigits[(x % 16) + 1] >>

\* fmt.Sprintf("%016x", v): v in hexadecimal, zero-padded to 16 digits.
Sprintf016x(v) ==
    FormatLimb(v[1]) \o FormatLimb(v[2]) \o FormatLimb(v[3]) \o FormatLimb(v[4])

\* func genString(rng) string { s := fmt.Sprintf("%016x", rng.Int63());
\*   return s[0 : 1+rng.Intn(len(s)-1)] }
\* The result and the generator's state after the two draws.
genString(r) ==
    LET s == Sprintf016x(Int63(r))
        r1 == Step(r)
    IN  [s |-> SubSeq(s, 1, 1 + Intn(r1, Len(s) - 1)), rng |-> Step(r1)]

benchVarsButPc == <<prog, regErr, subIdx, ci, mi, connConfig, queryMode, label,
                    rounds, bN, i, invoked, failed, rowsOpen, lastRun>>

\* _, err = pgxConn.Exec(ctx, "CREATE TABLE benchmark (kv HSTORE)"); panic on error.
\* rng := mathrand.New(mathrand.NewSource(rngSeed)); totalKVBytes := 0
CreateTable ==
    /\ pc = "createTable"
    /\ \E err \in {nil, ioError} : pc' = IF err # nil THEN "panic" ELSE "row"
    /\ UNCHANGED <<apiVars, benchVarsButPc, genVars>>

\* for i := 0; i < numRows; i++ { rowBuilder.Reset(); rowBuilder.WriteByte('\'')
\*   numPairs := 1 + rng.Intn(maxKVPairsPerRow-1); for j := 0; ...
GenRowStart ==
    /\ pc = "row"
    /\ row < numRows
    /\ rowBuilder' = << "'" >>
    /\ numPairs' = 1 + Intn(rng, maxKVPairsPerRow - 1)
    /\ rng' = Step(rng)
    /\ j' = 0
    /\ generated' = Append(generated, << >>)
    /\ pc' = "pair"
    /\ UNCHANGED <<apiVars, benchVarsButPc>>
    /\ UNCHANGED <<row, keyString, valueString, totalKVBytes, benchmark>>

GenPair_keyBytesOnly ==
    /\ pc = "pair"
    /\ j < numPairs
    /\ LET k == genString(rng)
           v == genString(k.rng)
       IN  /\ keyString' = k.s
           /\ valueString' = v.s
           /\ rng' = v.rng
           /\ rowBuilder' = rowBuilder \o (IF j # 0 THEN << "," >> ELSE << >>)
                              \o k.s \o << "=", ">" >> \o v.s
           /\ totalKVBytes' = totalKVBytes + Len(k.s)
           /\ generated' = [generated EXCEPT ![Len(generated)] = Append(@, <<k.s, v.s>>)]
    /\ j' = j + 1
    /\ UNCHANGED <<apiVars, benchVarsButPc>>
    /\ UNCHANGED <<pc, row, numPairs, benchmark>>

\* One iteration of the inner loop: a key and a value are generated, written
\* to rowBuilder as key=>value (after a comma if not the first pair), and
\* counted in totalKVBytes.
GenPair ==
    /\ pc = "pair"
    /\ j < numPairs
    /\ LET k == genString(rng)
           v == genString(k.rng)
       IN  /\ keyString' = k.s
           /\ valueString' = v.s
           /\ rng' = v.rng
           /\ rowBuilder' = rowBuilder \o (IF j # 0 THEN << "," >> ELSE << >>)
                              \o k.s \o << "=", ">" >> \o v.s
           /\ totalKVBytes' = totalKVBytes + Len(k.s) + Len(v.s)
           /\ generated' = [generated EXCEPT ![Len(generated)] = Append(@, <<k.s, v.s>>)]
    /\ j' = j + 1
    /\ UNCHANGED <<apiVars, benchVarsButPc>>
    /\ UNCHANGED <<pc, row, numPairs, benchmark>>

\* The inner loop has ended: rowBuilder.WriteByte('\'');
\* _, err = pgxConn.Exec(ctx, "INSERT INTO benchmark VALUES ($1);", rowBuilder.String())
\* and a panic on error; then i++.
GenRowEnd ==
    /\ pc = "pair"
    /\ j >= numPairs
    /\ rowBuilder' = Append(rowBuilder, "'")
    /\ \E err \in {nil, ioError} :
         IF err # nil
         THEN /\ pc' = "panic"
              /\ UNCHANGED <<benchmark, row>>
         ELSE /\ benchmark' = Append(benchmark, rowBuilder')
              /\ row' = row + 1
              /\ pc' = "row"
    /\ UNCHANGED <<apiVars, benchVarsButPc>>
    /\ UNCHANGED <<rng, numPairs, j, keyString, valueString, totalKVBytes, generated>>

\* The outer loop has ended: b.Logf("   generated %d total KV bytes\n", totalKVBytes).
GenDone ==
    /\ pc = "row"
    /\ row >= numRows
    /\ pc' = IF prog = "part_000" THEN "queryOID" ELSE "sub"
    /\ UNCHANGED <<apiVars, benchVarsButPc, genVars>>

BenchInit ==
    /\ pg_type = <<>>
    /\ typeMap = [c \in Conns |-> NewTypeMap]
    /\ hstoreOID = 0
    /\ lookups = [h \in Handles |-> 0]
    /\ writes = [c \in Conns |-> 0]
    /\ queries = [c \in Conns |-> 0]
    /\ lastCall = Call("none", "none", FALSE, nil, 0)
    /\ notExistSeen = {}
    /\ ncalls = 0
    /\ panicked = FALSE
    /\ \E p \in Progs : BenchIdle(p)
    /\ GenIdle(0)

\* A step of the program's benchmark part: the generated rows are not touched.
Bench(A) == A /\ UNCHANGED genVars

BenchNext ==
    \/ Bench(BenchCreateExtension)
    \/ Bench(BenchRegisterHstore)
    \/ Bench(BenchRegisterFaster)
    \/ Bench(BenchQueryOID)
    \/ CreateTable
    \/ GenRowStart
    \/ GenPair
    \/ GenRowEnd
    \/ GenDone
    \/ Bench(MainQuery)
    \/ Bench(StartFixedSub)
    \/ Bench(EnterLoop)
    \/ Bench(LoopNext)
    \/ Bench(StartRound)
    \/ Bench(TimeItStep)
    \/ Bench(TimeItReturn)
    \/ Bench(EndSub)

SpecBench == BenchInit /\ [][BenchNext]_vars

\* The generation alone, for every seed: the program up to the end of the
\* row-generating loop.
GenInit ==
    /\ pg_type = <<>>
    /\ typeMap = [c \in Conns |-> NewTypeMap]
    /\ hstoreOID = 0
    /\ lookups = [h \in Handles |-> 0]
    /\ writes = [c \in Conns |-> 0]
    /\ queries = [c \in Conns |-> 0]
    /\ lastCall = Call("none", "none", FALSE, nil, 0)
    /\ notExistSeen = {}
    /\ ncalls = 0
    /\ panicked = FALSE
    /\ \E p \in {"part_000", "hstorebench_test"} : BenchIdle(p)
    /\ \E seed \in Seeds : GenIdle(seed)

GenNext ==
    \/ Bench(BenchCreateExtension)
    \/ Bench(BenchRegisterHstore)
    \/ Bench(BenchRegisterFaster)
    \/ CreateTable
    \/ GenRowStart
    \/ GenPair
    \/ GenRowEnd
    \/ GenDone

SpecGen == GenInit /\ [][GenNext]_vars

----
\* Helpers of the claims.

HasHstore(c) == TypeForName(typeMap[c], "hstore").ok

\* The step is a call of op on conn.
IsCall(op, conn) ==
    /\ ncalls' = ncalls + 1
    /\ lastCall'.op = op
    /\ lastCall'.conn = conn

TypeOK ==
    /\ Len(pg_type) <= 1
    /\ ncalls \in 0..MaxCalls
    /\ hstoreOID \in {0} \cup ExtensionOIDs

----
\* C1: when the catalog has no row for typname 'hstore' and the lookup itself
\* completes, registerHstore(conn) returns exactly errHstoreDoesNotExist (OID 0),
\* leaves every type map unchanged, and hstore is still not registered by name
\* on conn afterwards.
C1_NoRowReturnsErrHstoreDoesNotExist ==
    [][\A c \in PgxConns :
         (IsCall("registerHstore", c) /\ pg_type = <<>> /\ ~lastCall'.fault)
         => /\ lastCall'.err = errHstoreDoesNotExist
            /\ lastCall'.oid = 0
            /\ typeMap' = typeMap
            /\ writes' = writes
            /\ ~TypeForName(typeMap'[c], "hstore").ok]_vars

\* C1 witness: registerHstore has just returned errHstoreDoesNotExist on a
\* connection, with no hstore row in the catalog and none registered on it.
C1_Witness ==
    /\ lastCall.op = "registerHstore"
    /\ ~lastCall.fault
    /\ pg_type = <<>>
    /\ lastCall.err = errHstoreDoesNotExist
    /\ ~HasHstore(lastCall.conn)

\* C2: once the extension exists in the catalog, a registerHstore(conn) whose
\* lookup completes returns nil, and conn's type map then holds a type named
\* "hstore" whose OID is the catalog's and whose codec prefers the binary
\* format; an earlier errHstoreDoesNotExist on the same connection changes nothing.
C2_RegisterAfterCreateExtension ==
    [][\A c \in PgxConns :
         (IsCall("registerHstore", c) /\ pg_type # <<>> /\ ~lastCall'.fault)
         => LET t == TypeForName(typeMap'[c], "hstore")
            IN  /\ lastCall'.err = nil
                /\ lastCall'.oid = pg_type[1]
                /\ t.ok
                /\ t.pgt.Name = "hstore"
                /\ t.pgt.OID = pg_type[1]
                /\ PreferredFormat(t.pgt.Codec) = "BinaryFormatCode"]_vars

\* C2 witness: registerHstore has just returned nil on a connection on which an
\* earlier call returned errHstoreDoesNotExist, and hstore is registered there
\* under the catalog's OID.
C2_Witness ==
    /\ lastCall.op = "registerHstore"
    /\ lastCall.err = nil
    /\ lastCall.conn \in notExistSeen
    /\ pg_type # <<>>
    /\ HasHstore(lastCall.conn)
    /\ TypeForName(typeMap[lastCall.conn], "hstore").pgt.OID = pg_type[1]

\* C3 as stated: once registration has succeeded on a connection, a second
\* registerHstore call on it sends no catalog lookup, and no closure run sends one.
C3_SecondCallRepeatsNoLookup ==
    [][/\ \A c \in PgxConns :
            (HasHstore(c) /\ IsCall("registerHstore", c)) => lookups' = lookups
       /\ \A c \in Conns :
            (IsCall("sqlScanHstoreFasterRawBinary", c) \/ IsCall("pgxQuery", c))
            => lookups' = lookups]_vars

\* C3 amended: the resolved type stays in the connection's type map and the
\* benchmark's hstoreOID is assigned once, so no closure run sends a catalog
\* lookup; but registerHstore keeps no cache: every call, also one on a
\* connection that is registered already, sends exactly one lookup through
\* that connection.
C3_LookupPerRegisterCallNonePerQuery ==
    [][/\ \A c \in PgxConns :
            IsCall("registerHstore", c)
            => lookups' = [lookups EXCEPT ![c] = @ + 1]
       /\ \A c \in Conns :
            (IsCall("sqlScanHstoreFasterRawBinary", c) \/ IsCall("pgxQuery", c))
            => /\ lookups' = lookups
               /\ hstoreOID' = hstoreOID
       /\ \A c \in Conns : HasHstore(c) => TypeForName(typeMap'[c], "hstore").ok
       /\ hstoreOID # 0 => hstoreOID' = hstoreOID]_vars

\* C3 witness: a second successful registerHstore on one connection has sent a
\* second lookup.
C3_Witness ==
    /\ lastCall.op = "registerHstore"
    /\ lastCall.err = nil
    /\ writes[lastCall.conn] >= 2
    /\ lookups[lastCall.conn] >= 2

\* C4 as stated: the type map of a connection is written at most once.
C4_WrittenAtMostOnce ==
    \A c \in Conns : writes[c] <= 1

\* C4 amended: a connection's type map is written again by every later
\* successful registerHstore call and by every run of
\* sqlScanHstoreFasterRawBinary on it, but each such write stores the same
\* type, so once hstore is registered on a connection the content of its type
\* map never changes.
C4_RegistrationContentStable ==
    [][\A c \in Conns :
         HasHstore(c) =>
            /\ typeMap'[c] = typeMap[c]
            /\ writes'[c] >= writes[c]]_vars

\* C4 witness: a closure run has just written, for at least the second time,
\* the type map of a pooled connection.
C4_Witness ==
    /\ lastCall.op = "sqlScanHstoreFasterRawBinary"
    /\ lastCall.err = nil
    /\ writes[lastCall.conn] >= 2
    /\ HasHstore(lastCall.conn)

\* C11 as stated: every decode failure reaches the caller as a returned error;
\* no call of HstoreSQLBinary.Scan, whatever the dynamic type of its source,
\* ends in a panic.
C11_DecodeFailureIsReturned ==
    lastCall.op = "HstoreSQLBinary.Scan" => (~panicked /\ lastCall.err # "panic")

\* C12: when the catalog lookup fails for a reason other than "no rows",
\* queryHstoreOID and queryHstoreOIDSQL return that error unchanged with OID 0,
\* registerHstore returns the same error and registers nothing, and the call
\* has sent exactly one lookup.
C12_LookupFailurePassedThrough ==
    [][/\ \A c \in PgxConns :
            (IsCall("registerHstore", c) /\ lastCall'.fault)
            => /\ lastCall'.err = QueryRowScan(pg_type, TRUE, pgxErrNoRows).err
               /\ lastCall'.err \notin {nil, errHstoreDoesNotExist}
               /\ lastCall'.oid = 0
               /\ typeMap' = typeMap
               /\ writes' = writes
               /\ lookups' = [lookups EXCEPT ![c] = @ + 1]
       /\ (IsCall("queryHstoreOIDSQL", "sqlDB") /\ lastCall'.fault)
            => /\ lastCall'.err = QueryRowScan(pg_type, TRUE, sqlErrNoRows).err
               /\ lastCall'.err \notin {nil, errHstoreDoesNotExist}
               /\ lastCall'.oid = 0
               /\ hstoreOID' = 0
               /\ typeMap' = typeMap
               /\ lookups' = [lookups EXCEPT !["sqlDB"] = @ + 1]]_vars

\* C12 witness: registerHstore has just returned the driver's I/O error on a
\* connection whose catalog holds the hstore row, and nothing is registered.
C12_Witness ==
    /\ lastCall.op = "registerHstore"
    /\ lastCall.fault
    /\ lastCall.err = ioError
    /\ pg_type # <<>>
    /\ ~HasHstore(lastCall.conn)
    /\ lookups[lastCall.conn] = 1

\* C14: registerHstore(conn) looks the OID up through conn and writes only
\* conn's type map; the type map of every other connection is unchanged, so a
\* connection without hstore stays without it.
C14_RegistrationIsPerConnection ==
    [][\A c \in PgxConns :
         IsCall("registerHstore", c)
         => /\ \A d \in Conns \ {c} :
                 /\ typeMap'[d] = typeMap[d]
                 /\ writes'[d] = writes[d]
                 /\ HasHstore(d) = TypeForName(typeMap'[d], "hstore").ok
            /\ \A h \in Handles \ {c} : lookups'[h] = lookups[h]
            /\ lookups'[c] = lookups[c] + 1
            /\ lastCall'.err = nil
               => /\ pg_type # <<>>
                  /\ TypeForName(typeMap'[c], "hstore").ok
                  /\ TypeForName(typeMap'[c], "hstore").pgt.OID = pg_type[1]]_vars

\* C14 witness: hstore has just been registered on pgxConnHstoreRegistered
\* while the default connection pgxConn has no hstore registration.
C14_Witness ==
    /\ lastCall.op = "registerHstore"
    /\ lastCall.err = nil
    /\ lastCall.conn = "pgxConnHstoreRegistered"
    /\ HasHstore("pgxConnHstoreRegistered")
    /\ ~HasHstore("pgxConn")

\* C20: on the same catalog state and the same driver outcome queryHstoreOID
\* and queryHstoreOIDSQL return the same pair: (oid, nil) when the row exists,
\* (0, errHstoreDoesNotExist) when the driver reports its no-rows sentinel,
\* (0, err) for any other error; the OID is non-zero only when the error is nil.
C20_QueryHstoreOIDVariantsAgree ==
    \A fault \in BOOLEAN :
        LET a == queryHstoreOID(pg_type, fault)
            b == queryHstoreOIDSQL(pg_type, fault)
        IN  /\ a = b
            /\ (~fault /\ pg_type # <<>>) => a = [oid |-> pg_type[1], err |-> nil]
            /\ (~fault /\ pg_type = <<>>) => a = [oid |-> 0, err |-> errHstoreDoesNotExist]
            /\ fault => a = [oid |-> 0, err |-> ioError]
            /\ a.oid # 0 => a.err = nil
            /\ b.oid # 0 => b.err = nil

\* C20 witness: on one catalog state without the hstore row both functions
\* have been called and both returned errHstoreDoesNotExist.
C20_Witness ==
    /\ lastCall.op = "queryHstoreOIDSQL"
    /\ lastCall.err = errHstoreDoesNotExist
    /\ lastCall.oid = 0
    /\ pg_type = <<>>
    /\ notExistSeen # {}

\* C15: registerHstore is called only once CREATE EXTENSION hstore has
\* completed, and a closure runs on the hstore_registered connection only if
\* that registration returned nil.
C15_RegisteredBeforeUse ==
    /\ lastCall.op = "registerHstore" => pg_type # <<>>
    /\ lastRun.conn = RegConn => regErr = nil

\* C16: whenever a closure has returned, no result set is left open on any
\* connection, and no closure run has started on a connection with an open
\* result set.
C16_RowsClosedOnReturn ==
    /\ \A h \in BenchHandles : ~rowsOpen[h]
    /\ ~lastRun.startedBusy

\* C17: every run of a pgxScan closure queries the connection that the
\* connection label of its sub-benchmark names, with the query mode that the
\* label names.
C17_PgxScanRunsAsLabelled ==
    lastRun.name = "pgxScan"
    => /\ \E k \in 1..Len(connConfigs(prog)) :
            /\ connConfigs(prog)[k].label = lastRun.label[1]
            /\ connConfigs(prog)[k].conn = lastRun.conn
       /\ lastRun.mode = lastRun.label[2]

\* C17 witness: the closure of pgxScan/hstore_registered/mode=QueryExecModeExec,
\* not the first and not the last combination, has run without error.
C17_Witness ==
    /\ lastRun.name = "pgxScan"
    /\ lastRun.label = <<"hstore_registered", "QueryExecModeExec">>
    /\ lastRun.conn = RegConn
    /\ lastRun.err = nil
    /\ invoked = 2

\* C18: timeIt's function never invokes f more than b.N times; it returns
\* normally only after exactly b.N invocations that all returned nil; and when
\* the k-th invocation returns an error, the benchmark is failed with that
\* error, k-1 invocations returned nil before it, and f is not invoked again.
C18_TimeItInvokesUntilError ==
    /\ invoked <= bN
    /\ pc = "timeIt" => (failed = nil /\ invoked = i)
    /\ (pc = "timeIt" /\ i >= bN) => invoked = bN
    /\ failed # nil => /\ failed = lastRun.err
                       /\ invoked = i + 1
                       /\ pc \notin {"timeIt", "round"}

\* C18 witness: with b.N = 3 the second invocation returned an error, and the
\* sub-benchmark has ended after two invocations.
C18_Witness ==
    /\ bN = 3
    /\ invoked = 2
    /\ failed # nil
    /\ failed = lastRun.err
    /\ pc = "subEnd"

\* The strings of 1 to 15 lowercase hexadecimal digits.
IsHexString(s) ==
    /\ Len(s) \in 1..15
    /\ \A n \in 1..Len(s) : \E d \in 1..16 : s[n] = HexDigits[d]

\* The text 'k=>v,k=>v' of a row made of the pairs ps, without the quotes.
RECURSIVE JoinPairs(_)
JoinPairs(ps) ==
    IF ps = << >> THEN << >>
    ELSE (IF Len(ps) = 1 THEN << >> ELSE JoinPairs(SubSeq(ps, 1, Len(ps) - 1)) \o << "," >>)
         \o ps[Len(ps)][1] \o << "=", ">" >> \o ps[Len(ps)][2]

\* The sum of the lengths of the keys and values of the pairs ps.
RECURSIVE PairBytes(_)
PairBytes(ps) ==
    IF ps = << >> THEN 0
    ELSE PairBytes(SubSeq(ps, 1, Len(ps) - 1)) + Len(ps[Len(ps)][1]) + Len(ps[Len(ps)][2])

\* The sum of PairBytes over the rows rs.
RECURSIVE RowBytes(_)
RowBytes(rs) ==
    IF rs = << >> THEN 0
    ELSE RowBytes(SubSeq(rs, 1, Len(rs) - 1)) + PairBytes(rs[Len(rs)])

\* The keys of the hstore value that a row made of the pairs ps holds.
DecodedKeys(ps) == {ps[n][1] : n \in 1..Len(ps)}

\* C19: every inserted row is the text of its generated pairs and has
\* between 1 and maxKVPairsPerRow-1 of them; every generated key and value is
\* a string of 1 to 15 lowercase hexadecimal digits; the hstore value of every
\* inserted row has at least one key; totalKVBytes is the sum of the lengths
\* of all generated keys and values; and when the loop has ended numRows rows
\* have been inserted.
C19_GeneratedRowsWellFormed ==
    /\ Len(benchmark) = row
    /\ row <= numRows
    /\ \A r \in 1..Len(benchmark) :
         /\ Len(generated[r]) \in 1..(maxKVPairsPerRow - 1)
         /\ benchmark[r] = << "'" >> \o JoinPairs(generated[r]) \o << "'" >>
         /\ DecodedKeys(generated[r]) # {}
    /\ \A r \in 1..Len(generated) : \A n \in 1..Len(generated[r]) :
         /\ IsHexString(generated[r][n][1])
         /\ IsHexString(generated[r][n][2])
    /\ totalKVBytes = RowBytes(generated)
    /\ pc \in {"sub", "queryOID"} => Len(benchmark) = numRows

\* C19 witness: the loop has ended after numRows rows, among them a row of
\* maxKVPairsPerRow-1 pairs, with a generated string of one digit and one of
\* 15 digits.
C19_Witness ==
    /\ pc \in {"sub", "queryOID"}
    /\ Len(benchmark) = numRows
    /\ \E r \in 1..Len(generated) : Len(generated[r]) = maxKVPairsPerRow - 1
    /\ \E r \in 1..Len(generated) : \E n \in 1..Len(generated[r]) : \E c \in 1..2 :
         Len(generated[r][n][c]) = 1
    /\ \E r \in 1..Len(generated) : \E n \in 1..Len(generated[r]) : \E c \in 1..2 :
         Len(generated[r][n][c]) = 15
    /\ totalKVBytes > 0

====
